---- MODULE Spec2Model ----
(***************************************************************************)
(* Model of skbold's masked pattern extraction:                            *)
(*   skbold/core/mvp.py                      Mvp, Mvp.update_mask          *)
(*   skbold/data2mvp/fsl2mvp/fsl2mvp_within.py   Fsl2mvpWithin             *)
(*   skbold/data2mvp/fsl2mvp/fsl2mvp_between.py  Fsl2mvpBetween            *)
(*   skbold/utils/convert2epi.py             convert2epi                   *)
(*                                                                         *)
(* Conventions.  Python None is the empty tuple for sequence-valued        *)
(* attributes and NoneInt for integer-valued ones; attributes that can     *)
(* legitimately hold an empty array (X, y) are wrapped: None is << >> and  *)
(* the array a is <<a>>.  A volume is a record [space, shape, data] whose  *)
(* data is the raveled (row-major) array.  Class labels are the integers   *)
(* 1..NumClasses, standing for label strings in their sort order.          *)
(* A float is a record [k, v]: k = "fin" with integer value v, k = "inf"   *)
(* with sign v, or k = "nan".                                              *)
(***************************************************************************)
EXTENDS Integers, Sequences, FiniteSets, TLC

VARIABLES mvp, fs, pc, err, loc, io, pre

vars == <<mvp, fs, pc, err, loc, io, pre>>

(***************************************************************************)
(* Bounds of the model.                                                    *)
(***************************************************************************)
NVox == 3
MaxMaskVal == 2
MaxTrials == 4
NumClasses == 3
MaxCopes == 3
NFeat == 2
MaxCalls == 3
NWorkers == 2

(***************************************************************************)
(* Generic helpers.                                                        *)
(***************************************************************************)
None == << >>
NoneInt == -1
Some(x) == <<x>>

Merge(r1, r2) ==
  [k \in (DOMAIN r1) \cup (DOMAIN r2) |-> IF k \in DOMAIN r2 THEN r2[k] ELSE r1[k]]

\* numpy: boolean array .sum()
CountTrue(b) == Cardinality({p \in DOMAIN b : b[p]})

\* numpy: a[b] for a boolean index b of the same length: the entries of a at
\* the true positions of b, in increasing position order
RECURSIVE BoolIndex(_, _)
BoolIndex(a, b) ==
  IF b = << >> THEN << >>
  ELSE IF Head(b) THEN <<Head(a)>> \o BoolIndex(Tail(a), Tail(b))
       ELSE BoolIndex(Tail(a), Tail(b))

\* numpy: np.prod(shape)
Prod(shape) == shape[1] * shape[2] * shape[3]

\* the sequences over S of length 0..n
SeqsUpTo(S, n) == UNION {[1..k -> S] : k \in 0..n}

\* the ascending sequence of a finite set of integers
RECURSIVE SortedSeq(_)
SortedSeq(S) ==
  IF S = {} THEN << >>
  ELSE LET lo == CHOOSE x \in S : \A y \in S : x <= y
       IN <<lo>> \o SortedSeq(S \ {lo})

Range(s) == {s[i] : i \in DOMAIN s}

(***************************************************************************)
(* Volumes.                                                                *)
(***************************************************************************)
\* 3-D geometries with at most NVox voxels
Shapes == {sh \in (1..NVox) \X (1..NVox) \X {1} : Prod(sh) <= NVox}

MaskVals == 0..MaxMaskVal
Thresholds == 0..MaxMaskVal

\* mask volumes: probabilistic values per voxel; space "mni" stands for the
\* MNI152 2mm geometry (91, 109, 91) the code tests for
MaskVols ==
  UNION {[space : {"epi", "mni"}, shape : {sh}, data : [1..Prod(sh) -> MaskVals]]
         : sh \in Shapes}

(***************************************************************************)
(* Mvp.__init__ and the subclasses' __init__.                              *)
(***************************************************************************)
Mvp__init__(ref_space, beta2tstat, mask_path, mask_threshold) ==
  [ref_space |-> ref_space, beta2tstat |-> beta2tstat,
   mask_path |-> mask_path, mask_threshold |-> mask_threshold,
   n_features |-> NoneInt, mask_index |-> None, mask_shape |-> None,
   nifti_header |-> 0, affine |-> 0, X |-> None, y |-> None]

\* the attributes Fsl2mvp.__init__ holds for both variants (the base class is
\* not among the sources): the exclusion list and the voxel index array
Fsl2mvp__init__ ==
  [remove_idx |-> None, voxel_idx |-> << >>]

Fsl2mvpWithin__init__(ref_space, beta2tstat, mask_path, mask_threshold) ==
  Merge(Merge(Mvp__init__(ref_space, beta2tstat, mask_path, mask_threshold),
              Fsl2mvp__init__),
        [variant |-> "within", contrast_labels |-> None, n_class |-> NoneInt,
         class_names |-> None, n_trials |-> NoneInt, n_inst |-> None,
         class_idx |-> None, trial_idx |-> None])

Fsl2mvpBetween__init__(ref_space, beta2tstat, mask_path, mask_threshold, ovf) ==
  Merge(Merge(Mvp__init__(ref_space, beta2tstat, mask_path, mask_threshold),
              Fsl2mvp__init__),
        [variant |-> "between", output_var_file |-> ovf, contrast_id |-> << >>,
         contrast_labels |-> None, n_cope |-> NoneInt, n_runs |-> NoneInt,
         n_contrast |-> NoneInt, contrast_names |-> None])

(***************************************************************************)
(* MaskIndex: building the mask and Mvp.update_mask.                       *)
(***************************************************************************)
\* glm2mvp, "Load mask, create index": the mask from a mask volume
MaskFromVolume(m, vol) ==
  LET idx == [p \in DOMAIN vol.data |-> vol.data[p] > m.mask_threshold]
  IN [m EXCEPT !.mask_shape = vol.shape,
               !.mask_index = idx,
               !.n_features = CountTrue(idx)]

\* glm2mvp, "We need to 'peek' at the first cope": the all-true mask
PeekGeometry(m, tmp) ==
  [m EXCEPT !.n_features = Len(tmp.data),
            !.mask_index = [p \in DOMAIN tmp.data |-> TRUE],
            !.mask_shape = tmp.shape]

\* update_mask's size test
UpdateMaskRaises(m, new_idx) == Len(new_idx) # CountTrue(m.mask_index)

\* a canvas of ones instead of zeros: unselected voxels end up selected
MutNarrowCanvasOnes(mask_index, new_idx) ==
  [p \in DOMAIN mask_index |->
     IF mask_index[p]
     THEN 0 + (IF new_idx[CountTrue(SubSeq(mask_index, 1, p))] THEN 1 ELSE 0)
     ELSE 1]

\* tmp_idx = np.zeros(shape); tmp_idx[mask_index.reshape(shape)] += new_idx:
\* the k-th selected voxel receives new_idx[k] (a boolean adds as 0 or 1)
NarrowCanvas(mask_index, new_idx) ==
  [p \in DOMAIN mask_index |->
     IF mask_index[p]
     THEN 0 + (IF new_idx[CountTrue(SubSeq(mask_index, 1, p))] THEN 1 ELSE 0)
     ELSE 0]

\* the canvas is stored before the size test
MutUpdateMaskEarlyStore(m, new_idx) ==
  IF UpdateMaskRaises(m, new_idx)
  THEN [mvp |-> [m EXCEPT !.mask_index = [p \in DOMAIN m.mask_index |-> FALSE]],
        err |-> "ShapeMismatch"]
  ELSE [mvp |-> [m EXCEPT !.mask_index =
                   [p \in DOMAIN m.mask_index |->
                      NarrowCanvas(m.mask_index, new_idx)[p] # 0]],
        err |-> "none"]

\* Mvp.update_mask: the entity and the error after the call
update_mask(m, new_idx) ==
  IF UpdateMaskRaises(m, new_idx)
  THEN [mvp |-> m, err |-> "ShapeMismatch"]
  ELSE LET tmp_idx == NarrowCanvas(m.mask_index, new_idx)
       IN [mvp |-> [m EXCEPT !.mask_index =
                      [p \in DOMAIN tmp_idx |-> tmp_idx[p] # 0]],
           err |-> "none"]

(***************************************************************************)
(* SpecMask: an entity whose mask is built by the extraction's mask steps  *)
(* and then narrowed by any sequence of update_mask calls.                 *)
(***************************************************************************)
\* the first condition volume the extraction peeks at: only its geometry matters
PeekVols == {[space |-> "epi", shape |-> sh, data |-> [p \in 1..Prod(sh) |-> 0]]
             : sh \in Shapes}

NoLoc == [op |-> "none", new_idx |-> << >>]

InitMask ==
  /\ mvp \in {Fsl2mvpWithin__init__("epi", TRUE, mp, t)
              : mp \in {"none", "mask"}, t \in Thresholds}
  /\ fs = << >>
  /\ pc = "new"
  /\ err = "none"
  /\ loc = NoLoc
  /\ io = {}
  /\ pre = << >>

\* glm2mvp's mask step with a mask configured (a mask already in the
\* entity's reference space: no transform is needed)
MaskLoad ==
  /\ pc = "new"
  /\ mvp.mask_path = "mask"
  /\ \E vol \in {v \in MaskVols : v.space = "epi"} :
       mvp' = MaskFromVolume(mvp, vol)
  /\ pc' = "built"
  /\ loc' = [op |-> "build", new_idx |-> << >>]
  /\ UNCHANGED <<fs, err, io, pre>>

\* glm2mvp's peek step with no mask configured
MaskPeek ==
  /\ pc = "new"
  /\ mvp.mask_path = "none"
  /\ \E tmp \in PeekVols : mvp' = PeekGeometry(mvp, tmp)
  /\ pc' = "built"
  /\ loc' = [op |-> "build", new_idx |-> << >>]
  /\ UNCHANGED <<fs, err, io, pre>>

\* a caller's update_mask(new_idx), with an index of any size
UpdateMask ==
  /\ pc = "built"
  /\ \E new_idx \in SeqsUpTo(BOOLEAN, NVox + 1) :
       LET r == update_mask(mvp, new_idx)
       IN /\ mvp' = r.mvp
          /\ err' = r.err
          /\ loc' = [op |-> "update_mask", new_idx |-> new_idx]
  /\ UNCHANGED <<fs, pc, io, pre>>

NextMask == MaskLoad \/ MaskPeek \/ UpdateMask

SpecMask == InitMask /\ [][NextMask]_vars

\* C1: once the mask is built, and after any sequence of successful
\* update_mask calls, selection.size = prod(shape) and n_features =
\* selection.sum().
C1_MaskInvariant ==
  pc = "built" =>
    /\ Len(mvp.mask_index) = Prod(mvp.mask_shape)
    /\ mvp.n_features = CountTrue(mvp.mask_index)

\* C2: update_mask with an index whose element count differs from the number
\* of selected voxels raises the shape-mismatch error and leaves mask_index,
\* mask_shape and n_features as they were.
C2_WrongSizeLeavesMask ==
  [][(loc'.op = "update_mask"
        /\ Len(loc'.new_idx) # Cardinality({p \in DOMAIN mvp.mask_index : mvp.mask_index[p]}))
      => /\ err' = "ShapeMismatch"
         /\ mvp'.mask_index = mvp.mask_index
         /\ mvp'.mask_shape = mvp.mask_shape
         /\ mvp'.n_features = mvp.n_features]_vars

\* a wrongly sized update_mask call has just been refused on a built mask
\* with at least one selected voxel
C2_Witness ==
  /\ pc = "built"
  /\ loc.op = "update_mask"
  /\ err = "ShapeMismatch"
  /\ Len(loc.new_idx) > 0
  /\ CountTrue(mvp.mask_index) > 0

\* C3: update_mask only shrinks: a voxel is selected afterwards iff it was
\* selected before and its new_index entry is true; the selected count and
\* n_features do not grow; an all-true index leaves the selection unchanged.
C3_MonotoneShrink ==
  [][(loc'.op = "update_mask" /\ err' = "none")
      => LET old == mvp.mask_index
             new == mvp'.mask_index
             rank(p) == Cardinality({q \in 1..p : old[q]})
         IN /\ DOMAIN new = DOMAIN old
            /\ \A p \in DOMAIN old :
                 new[p] <=> (old[p] /\ loc'.new_idx[rank(p)])
            /\ Cardinality({p \in DOMAIN new : new[p]})
                 <= Cardinality({p \in DOMAIN old : old[p]})
            /\ mvp'.n_features <= mvp.n_features
            /\ ((\A k \in DOMAIN loc'.new_idx : loc'.new_idx[k]) => new = old)]_vars

\* a successful update_mask has dropped one voxel and kept another
C3_Witness ==
  /\ pc = "built"
  /\ loc.op = "update_mask"
  /\ err = "none"
  /\ \E k \in DOMAIN loc.new_idx : loc.new_idx[k]
  /\ \E k \in DOMAIN loc.new_idx : ~loc.new_idx[k]
  /\ CountTrue(mvp.mask_index) = 1
  /\ mvp.n_features >= 2

(***************************************************************************)
(* LabelMetadata.                                                          *)
(***************************************************************************)
\* np.unique(cl): the distinct labels, sorted
np_unique(cl) == SortedSeq(Range(cl))

\* LabelEncoder().fit_transform(cl): each label's 0-based rank among the
\* sorted distinct labels
LabelEncoder_fit_transform(cl) ==
  LET classes == np_unique(cl)
  IN [i \in DOMAIN cl |-> (CHOOSE c \in DOMAIN classes : classes[c] = cl[i]) - 1]

\* np.sum(cls == cl): how many labels equal cls
CountEq(cl, cls) == Cardinality({i \in DOMAIN cl : cl[i] = cls})

\* n_inst = [np.sum(cls == cl) for cls in cl]
n_inst_of(cl) == [i \in DOMAIN cl |-> CountEq(cl, cl[i])]

\* Fsl2mvpWithin._update_metadata
update_metadata_within(m) ==
  LET cl == m.contrast_labels
      names == np_unique(cl)
  IN [m EXCEPT
        !.y = Some(LabelEncoder_fit_transform(cl)),
        !.n_trials = Len(cl),
        !.class_names = names,
        !.n_class = Len(names),
        !.n_inst = n_inst_of(cl),
        !.class_idx = [c \in DOMAIN names |-> [i \in DOMAIN cl |-> cl[i] = names[c]]],
        !.trial_idx = [c \in DOMAIN names |->
                         SortedSeq({i - 1 : i \in {j \in DOMAIN cl : cl[j] = names[c]}})]]

\* Fsl2mvpBetween._update_metadata
update_metadata_between(m) ==
  LET contrasts == m.contrast_labels
  IN [m EXCEPT !.n_contrast = Len(contrasts),
               !.contrast_names = np_unique(contrasts)]

(***************************************************************************)
(* SpecLabels: _update_metadata applied to any raw label sequence.         *)
(***************************************************************************)
Classes == 1..NumClasses

LabelSeqs == SeqsUpTo(Classes, MaxTrials) \ {<< >>}

InitLabels ==
  /\ \E cl \in LabelSeqs :
       mvp = [Fsl2mvpWithin__init__("epi", TRUE, "none", 0)
                EXCEPT !.contrast_labels = cl]
  /\ fs = << >>
  /\ pc = "labels"
  /\ err = "none"
  /\ loc = NoLoc
  /\ io = {}
  /\ pre = << >>

UpdateMetadata ==
  /\ pc = "labels"
  /\ mvp' = update_metadata_within(mvp)
  /\ pc' = "meta"
  /\ UNCHANGED <<fs, err, loc, io, pre>>

NextLabels == UpdateMetadata

SpecLabels == InitLabels /\ [][NextLabels]_vars

\* C9: after _update_metadata, n_inst has exactly one entry per distinct
\* class, and for every class c of class_names n_inst[c] is the number of raw
\* labels equal to c, which is the number of true entries of class_idx[c] and
\* the number of positions in trial_idx[c].
C9_PerClassCounts ==
  pc = "meta" =>
    /\ Len(mvp.n_inst) = Len(mvp.class_names)
    /\ \A c \in DOMAIN mvp.class_names :
         LET cnt == Cardinality({i \in DOMAIN mvp.contrast_labels :
                                   mvp.contrast_labels[i] = mvp.class_names[c]})
         IN /\ mvp.n_inst[c] = cnt
            /\ CountTrue(mvp.class_idx[c]) = cnt
            /\ Len(mvp.trial_idx[c]) = cnt

(***************************************************************************)
(* Floating-point values and BetaToStatConverter.                          *)
(***************************************************************************)
Fin(v) == [k |-> "fin", v |-> v]
Nan == [k |-> "nan", v |-> 0]
Inf(sgn) == [k |-> "inf", v |-> sgn]

Sign(v) == IF v > 0 THEN 1 ELSE IF v < 0 THEN 0 - 1 ELSE 0

\* np.sqrt: nan below zero; the model's variances are perfect squares
np_sqrt(x) ==
  IF x.k = "nan" THEN Nan
  ELSE IF x.k = "inf" THEN (IF x.v > 0 THEN Inf(1) ELSE Nan)
  ELSE IF x.v < 0 THEN Nan
  ELSE Fin(CHOOSE r \in 0..x.v : r * r = x.v)

\* np.divide on floats (IEEE 754): x/0 is inf with x's sign, 0/0 is nan; the
\* model's finite quotients are exact
np_divide(a, b) ==
  IF a.k = "nan" \/ b.k = "nan" THEN Nan
  ELSE IF b.k = "inf" THEN (IF a.k = "inf" THEN Nan ELSE Fin(0))
  ELSE IF a.k = "inf" THEN Inf(IF b.v < 0 THEN 0 - a.v ELSE a.v)
  ELSE IF b.v = 0 THEN (IF a.v = 0 THEN Nan ELSE Inf(Sign(a.v)))
  ELSE LET q == (a.v * Sign(a.v)) \div (b.v * Sign(b.v))
       IN Fin(Sign(a.v) * Sign(b.v) * q)

\* mvp_data[np.isnan(mvp_data)] = 0 on one element
nan_to_zero(x) == IF x.k = "nan" THEN Fin(0) ELSE x

\* np.divide(row, np.sqrt(var.ravel()[mask_index])), elementwise
beta2t(row, var, mask_index) ==
  LET var_sq == [j \in DOMAIN BoolIndex(var, mask_index) |->
                   np_sqrt(BoolIndex(var, mask_index)[j])]
  IN [j \in DOMAIN row |-> np_divide(row[j], var_sq[j])]

(***************************************************************************)
(* The first-level directory and its volumes.                              *)
(***************************************************************************)
\* a statistic file: cope<num>.nii.gz or varcope<num>.nii.gz in stats/ or
\* reg_standard/
File(kind, num, dir) == [kind |-> kind, num |-> num, dir |-> dir]

\* nib.load(path).get_data().ravel() of a statistic file: the directory's
\* array for that file, as floats (a transformed file holds the array of
\* the file it was made from, on the model's small grid)
nib_load(feat, file) ==
  LET raw == IF file.kind = "cope" THEN feat.cope[file.num]
             ELSE feat.varcope[file.num]
  IN [shape |-> feat.shape, num |-> file.num,
      data |-> [p \in DOMAIN raw |-> Fin(raw[p])]]

(***************************************************************************)
(* PatternAssembler: the data steps of glm2mvp.                            *)
(***************************************************************************)
\* the within-run matrix: rows of masked effects, divided by the square root
\* of the matched variance when beta2tstat is set, nan replaced by 0
\* (IndexError when a volume's size is not the mask's, or when there are
\* more variance volumes than rows)
LoadDataWithin(m, feat, copes, varcopes) ==
  LET n_stat == Len(copes)
      sized(f) == Len(nib_load(feat, f).data) = Len(m.mask_index)
      rows == [i \in 1..n_stat |->
                 BoolIndex(nib_load(feat, copes[i]).data, m.mask_index)]
      trows == [i \in 1..n_stat |->
                  IF m.beta2tstat /\ i <= Len(varcopes)
                  THEN beta2t(rows[i], nib_load(feat, varcopes[i]).data, m.mask_index)
                  ELSE rows[i]]
  IN IF \E i \in 1..n_stat : ~sized(copes[i]) THEN [err |-> "IndexError"]
     ELSE IF n_stat = 0 THEN [err |-> "NameError"]
     ELSE IF m.beta2tstat /\ (Len(varcopes) > n_stat
                                \/ \E i \in DOMAIN varcopes : ~sized(varcopes[i]))
          THEN [err |-> "IndexError",
                nifti_header |-> copes[n_stat].num, affine |-> copes[n_stat].num]
     ELSE [err |-> "none",
           nifti_header |-> copes[n_stat].num, affine |-> copes[n_stat].num,
           mvp_data |-> [i \in 1..n_stat |->
                           [j \in DOMAIN trows[i] |-> nan_to_zero(trows[i][j])]]]

Min(a, b) == IF a <= b THEN a ELSE b
Max(a, b) == IF a >= b THEN a ELSE b

\* the between-run flat vector and its companion index arrays.  The loop
\* appends to self.contrast_id and self.voxel_idx in every iteration, so an
\* iteration that raises leaves the blocks of the iterations before it.
LoadDataBetween(m, feat, copes, varcopes) ==
  LET F == m.n_features
      columns == F * Len(m.contrast_labels)
      n == Min(Len(copes), Len(varcopes))
      sized(f) == Len(nib_load(feat, f).data) = Len(m.mask_index)
      \* mvp_data[i*F : i*F + F]: the slice is cut at the end of the array
      slice_len(i) == Max(0, Min(columns, i * F + F) - Min(columns, i * F))
      errAt(i) ==
        IF ~sized(copes[i + 1]) THEN "IndexError"
        ELSE IF m.beta2tstat /\ ~sized(varcopes[i + 1]) THEN "IndexError"
        ELSE IF slice_len(i) # F /\ F # 1 THEN "ValueError"
        ELSE "none"
      bad == {i \in 0..(n - 1) : errAt(i) # "none"}
      k == IF bad = {} THEN n ELSE CHOOSE i \in bad : \A j \in bad : i <= j
      copedat(i) ==
        LET raw == BoolIndex(nib_load(feat, copes[i + 1]).data, m.mask_index)
        IN IF m.beta2tstat
           THEN beta2t(raw, nib_load(feat, varcopes[i + 1]).data, m.mask_index)
           ELSE raw
      vox_idx == BoolIndex([p \in 1..Prod(feat.shape) |-> p - 1], m.mask_index)
      contrast_id == m.contrast_id \o [c \in 1..(k * F) |-> (c - 1) \div F]
      voxel_idx == m.voxel_idx \o [c \in 1..(k * F) |-> vox_idx[((c - 1) % F) + 1]]
  IN IF bad # {}
     THEN [err |-> errAt(k), contrast_id |-> contrast_id, voxel_idx |-> voxel_idx]
     ELSE IF n = 0
     THEN [err |-> "NameError", contrast_id |-> contrast_id, voxel_idx |-> voxel_idx]
     ELSE [err |-> "none", contrast_id |-> contrast_id, voxel_idx |-> voxel_idx,
           nifti_header |-> copes[n].num, affine |-> copes[n].num,
           mvp_data |-> [c \in 1..columns |->
                           IF (c - 1) \div F < n
                           THEN nan_to_zero(copedat((c - 1) \div F)[((c - 1) % F) + 1])
                           ELSE Fin(0)]]

(***************************************************************************)
(* Numbered-file ordering and positional exclusion.                        *)
(***************************************************************************)
\* all orders in which glob may list the members of a finite set
Perms(S) == {q \in [1..Cardinality(S) -> S] : \A x \in S : \E i \in DOMAIN q : q[i] = x}

\* two of the orders glob may list statistic files in: descending and
\* ascending by number
GlobOrders(S) ==
  {q \in Perms(S) : \/ \A i, j \in DOMAIN q : i < j => q[i].num > q[j].num
                    \/ \A i, j \in DOMAIN q : i < j => q[i].num < q[j].num}

\* the orders a directory listing may come back in: every order, or only
\* the ascending and the descending one
ListingOrders(S, anyOrder) == IF anyOrder THEN Perms(S) ELSE GlobOrders(S)

\* skbold.utils.sort_numbered_list (not among the sources): ascending by the
\* number embedded in the file name
sort_numbered_list(files) ==
  LET nums == SortedSeq({files[i].num : i \in DOMAIN files})
  IN [i \in DOMAIN nums |-> CHOOSE f \in Range(files) : f.num = nums[i]]

\* convert2mni (not among the sources): one transformed file per input file,
\* in reg_standard, in the same order
convert2mni(files) ==
  [i \in DOMAIN files |-> File(files[i].kind, files[i].num, "reg_standard")]

\* sorted(remove_idx) without reverse=True
RECURSIVE MutSortedAscending(_)
MutSortedAscending(idxs) ==
  IF idxs = << >> THEN << >>
  ELSE LET mn == CHOOSE x \in Range(idxs) : \A y \in Range(idxs) : x <= y
           at == CHOOSE i \in DOMAIN idxs : idxs[i] = mn
       IN <<mn>> \o MutSortedAscending(SubSeq(idxs, 1, at - 1)
                                       \o SubSeq(idxs, at + 1, Len(idxs)))

\* sorted(remove_idx, reverse=True)
RECURSIVE sorted_reverse(_)
sorted_reverse(idxs) ==
  IF idxs = << >> THEN << >>
  ELSE LET mx == CHOOSE x \in Range(idxs) : \A y \in Range(idxs) : x >= y
           at == CHOOSE i \in DOMAIN idxs : idxs[i] = mx
       IN <<mx>> \o sorted_reverse(SubSeq(idxs, 1, at - 1)
                                   \o SubSeq(idxs, at + 1, Len(idxs)))

\* [lst.pop(idx) for idx in idxs]: the pops one after the other, on 0-based
\* positions; a position past the end raises IndexError
RECURSIVE PopAll(_, _)
PopAll(lst, idxs) ==
  IF idxs = << >> THEN [ok |-> TRUE, list |-> lst]
  ELSE LET i == Head(idxs)
       IN IF i >= Len(lst) THEN [ok |-> FALSE, list |-> lst]
          ELSE PopAll(SubSeq(lst, 1, i) \o SubSeq(lst, i + 2, Len(lst)), Tail(idxs))

\* within-run glm2mvp after the first sort: transform when needed, then
\* exclude by position (TypeError when no exclusion list was ever set)
ListStatsWithin(copes0, varcopes0, remove_idx, transform2mni) ==
  LET transformed_files == convert2mni(copes0 \o varcopes0)
      half == Len(transformed_files) \div 2
      copes1 == IF transform2mni THEN SubSeq(transformed_files, 1, half) ELSE copes0
      varcopes1 == IF transform2mni
                   THEN SubSeq(transformed_files, half + 1, Len(transformed_files))
                   ELSE varcopes0
      written == IF transform2mni THEN Range(transformed_files) ELSE {}
      pc1 == PopAll(copes1, sorted_reverse(remove_idx[1]))
      pv1 == PopAll(sort_numbered_list(varcopes1), sorted_reverse(remove_idx[1]))
  IN IF remove_idx = None
     THEN [err |-> "TypeError", copes |-> copes1, varcopes |-> varcopes1,
           written |-> written]
     ELSE [err |-> IF pc1.ok /\ pv1.ok THEN "none" ELSE "IndexError",
           copes |-> pc1.list, varcopes |-> pv1.list, written |-> written]

\* between-run glm2mvp after the first sort: exclude by position, then
\* transform when needed
ListStatsBetween(copes0, varcopes0, remove_idx, transform2mni) ==
  LET pc1 == PopAll(copes0, sorted_reverse(remove_idx[1]))
      pv1 == PopAll(sort_numbered_list(varcopes0), sorted_reverse(remove_idx[1]))
      transformed_files == convert2mni(pc1.list \o pv1.list)
      half == Len(transformed_files) \div 2
  IN IF remove_idx = None
     THEN [err |-> "TypeError", copes |-> copes0, varcopes |-> varcopes0, written |-> {}]
     ELSE IF ~(pc1.ok /\ pv1.ok)
     THEN [err |-> "IndexError", copes |-> pc1.list, varcopes |-> pv1.list,
           written |-> {}]
     ELSE IF transform2mni
     THEN [err |-> "none", copes |-> SubSeq(transformed_files, 1, half),
           varcopes |-> SubSeq(transformed_files, half + 1, Len(transformed_files)),
           written |-> Range(transformed_files)]
     ELSE [err |-> "none", copes |-> pc1.list, varcopes |-> pv1.list, written |-> {}]

(***************************************************************************)
(* The file system: one subject's first-level directory being extracted    *)
(* (fs.feat) and the subject's shared output directory mvp_data (fs.mat).  *)
(* An artifact of mvp_data is recorded by the number of the call that      *)
(* wrote it (0: a run converted before this session); what the current     *)
(* call pickled is kept in loc.header_dump.                                *)
(***************************************************************************)
\* the files glob finds in a statistics directory
GlobStats(feat, dir, kind) ==
  IF dir = "stats" THEN {File(kind, i, "stats") : i \in DOMAIN feat.cope}
  ELSE {f \in feat.std : f.kind = kind}

\* n_converted = len(glob(op.join(mat_dir, '*header*')))
CountHeaders(mat) == Cardinality(DOMAIN mat.headers)

EmptyDir == [exists |-> TRUE, headers |-> << >>, datas |-> << >>]

\* a reset only when more runs are converted than first-level directories exist
MutHousekeepingStrict(mat, n_feat) ==
  LET n_converted == CountHeaders(mat)
  IN IF mat.exists /\ n_feat < n_converted
     THEN [mat |-> EmptyDir, n_converted |-> 0, io |-> {"glob", "rmtree", "makedirs"}]
     ELSE IF ~mat.exists
     THEN [mat |-> EmptyDir, n_converted |-> n_converted, io |-> {"glob", "makedirs"}]
     ELSE [mat |-> mat, n_converted |-> n_converted, io |-> {"glob"}]

\* the reset of the output directory at the start of glm2mvp
Housekeeping(mat, n_feat) ==
  LET n_converted == CountHeaders(mat)
  IN IF mat.exists /\ n_feat <= n_converted
     THEN [mat |-> EmptyDir, n_converted |-> 0, io |-> {"glob", "rmtree", "makedirs"}]
     ELSE IF ~mat.exists
     THEN [mat |-> EmptyDir, n_converted |-> n_converted, io |-> {"glob", "makedirs"}]
     ELSE [mat |-> mat, n_converted |-> n_converted, io |-> {"glob"}]

\* open(fn, 'wb') / h5py.File(fn, 'w'): create or overwrite the artifact of a run
WriteArtifact(arts, run, by) ==
  [r \in (DOMAIN arts) \cup {run} |-> IF r = run THEN by ELSE arts[r]]

\* an output directory left by earlier sessions: k runs converted
OldMat(k) == [exists |-> TRUE, headers |-> [r \in 1..k |-> 0], datas |-> [r \in 1..k |-> 0]]

NoMat == [exists |-> FALSE, headers |-> << >>, datas |-> << >>]

(***************************************************************************)
(* Spec: entities are constructed for first-level directories of one       *)
(* subject and glm2mvp is called on them, step by step.                    *)
(***************************************************************************)
MainShape == <<1, 2, 1>>

\* the first-level directories of the main specification: 2 or 3 numbered
\* copes with their varcopes, with or without a reg_standard directory made
\* by FSL, the labels and exclusion list that label discovery will produce
\* and the mask volume the entity's mask_path names
FeatDirs ==
  {[shape |-> MainShape,
    cope |-> [i \in 1..n |-> [p \in 1..Prod(MainShape) |-> 4 * i]],
    varcope |-> [i \in 1..n |-> [p \in 1..Prod(MainShape) |-> 4]],
    std_exists |-> se,
    std |-> IF se THEN {File(k, i, "reg_standard") : k \in {"cope", "varcope"}, i \in 1..n}
            ELSE {},
    labels |-> lb, remove_idx |-> rm]
   : n \in (MaxCopes - 1)..MaxCopes, se \in BOOLEAN,
     lb \in {<<1, 2>>, <<1, 2, 1>>}, rm \in {<< >>, <<MaxCopes - 1>>}}

\* the mask files of the main specification, by path
MainMaskVolNames == {"mask_epi", "mask_mni", "mask_small"}

\* nib.load(mask_path) for those paths
MainMaskVol(path) ==
  CASE path = "mask_epi" -> [space |-> "epi", shape |-> MainShape, data |-> <<0, 1>>]
    [] path = "mask_mni" -> [space |-> "mni", shape |-> MainShape, data |-> <<1, 1>>]
    [] path = "mask_small" -> [space |-> "epi", shape |-> <<1, 1, 1>>, data |-> <<1>>]

\* the entities constructed: mask_path is "none" (None) or a mask file's path
Entities ==
  {Fsl2mvpWithin__init__(rs, TRUE, mp, 0)
     : rs \in {"epi", "mni", "bad"}, mp \in {"none"} \cup MainMaskVolNames}
  \cup
  {Fsl2mvpBetween__init__(rs, TRUE, mp, 0, ovf)
     : rs \in {"epi", "mni", "bad"}, mp \in {"none"} \cup MainMaskVolNames,
       ovf \in {"none", "zraven.txt"}}

\* the path convert2epi(...)[0] leaves in mask_path: convert2epi returns the
\* output path, a string, and [0] takes its first character
FirstChar == "/"

NoLocals ==
  [extract_labels |-> TRUE, n_converted |-> 0, transform2mni |-> FALSE,
   stat_dir |-> "none", copes |-> << >>, varcopes |-> << >>,
   mvp_data |-> None, header_dump |-> None]

\* no entity is held, no first-level directory is being extracted
NoEntity == [variant |-> "none"]
NoFeat == [shape |-> MainShape]

Init ==
  /\ mvp = NoEntity
  /\ \E mat \in {NoMat} \cup {OldMat(k) : k \in 0..NFeat} :
       fs = [feat |-> NoFeat, mat |-> mat]
  /\ pc = "none"
  /\ err = "none"
  /\ loc = NoLocals
  /\ io = {}
  /\ pre = [mvp |-> NoEntity, fs |-> fs, calls |-> 0]

Raise(e) == pc' = "failed" /\ err' = e

\* an entity is constructed for a first-level directory of the subject
Construct ==
  /\ pc = "none"
  /\ pre.calls < MaxCalls
  /\ mvp' \in Entities
  /\ \E feat \in FeatDirs : fs' = [fs EXCEPT !.feat = feat]
  /\ pc' = "idle"
  /\ pre' = [pre EXCEPT !.mvp = mvp', !.fs = fs']
  /\ UNCHANGED <<err, loc, io>>

\* the caller lets go of the entity (the driver's loop moves on to the next
\* first-level directory)
Discard ==
  /\ pc \in {"done", "failed"}
  /\ mvp' = NoEntity
  /\ fs' = [fs EXCEPT !.feat = NoFeat]
  /\ pc' = "none"
  /\ err' = "none"
  /\ loc' = NoLocals
  /\ io' = {}
  /\ pre' = [mvp |-> NoEntity, fs |-> fs', calls |-> pre.calls]

\* glm2mvp(extract_labels) is entered, on a new entity or again on the same
Call ==
  /\ pc \in {"idle", "done", "failed"}
  /\ pre.calls < MaxCalls
  /\ \E el \in BOOLEAN : loc' = [NoLocals EXCEPT !.extract_labels = el]
  /\ pre' = [mvp |-> mvp, fs |-> fs, calls |-> pre.calls + 1]
  /\ pc' = "mask"
  /\ err' = "none"
  /\ io' = {}
  /\ UNCHANGED <<mvp, fs>>

\* "Load mask, create index"
StepMask ==
  /\ pc = "mask"
  /\ IF mvp.mask_path = "none"
     THEN pc' = "house" /\ UNCHANGED <<mvp, err, io>>
     ELSE IF mvp.mask_path = FirstChar
     THEN Raise("LoadError") /\ io' = io \cup {"nib.load"} /\ UNCHANGED mvp
     ELSE LET mask_vol == MainMaskVol(mvp.mask_path)
          IN IF mvp.ref_space = "epi" /\ mask_vol.space = "mni"
             THEN /\ mvp' = [mvp EXCEPT !.mask_path = FirstChar]
                  /\ io' = io \cup {"nib.load", "convert2epi"}
                  /\ Raise("LoadError")
             ELSE /\ mvp' = MaskFromVolume(mvp, mask_vol)
                  /\ io' = io \cup {"nib.load"}
                  /\ pc' = "house"
                  /\ UNCHANGED err
  /\ UNCHANGED <<fs, loc, pre>>

\* the output directory: count, reset or create
StepHousekeeping ==
  /\ pc = "house"
  /\ LET h == Housekeeping(fs.mat, NFeat)
     IN /\ fs' = [fs EXCEPT !.mat = h.mat]
        /\ loc' = [loc EXCEPT !.n_converted = h.n_converted]
        /\ io' = io \cup h.io
  /\ pc' = "labels"
  /\ UNCHANGED <<mvp, err, pre>>

\* Fsl2mvp._extract_labels (the base class is not among the sources): label
\* discovery sets the raw labels and the positions to exclude
extract_labels(m, feat) ==
  [m EXCEPT !.contrast_labels = feat.labels, !.remove_idx = Some(feat.remove_idx)]

\* the scalar outcome read from the side file
Outcome == 7

\* Fsl2mvpBetween._add_outcome_var
add_outcome_var(m) == [m EXCEPT !.y = Some(<<Outcome>>)]

\* "Extract class vector"
StepLabels ==
  /\ pc = "labels"
  /\ LET m1 == IF loc.extract_labels THEN extract_labels(mvp, fs.feat) ELSE mvp
         io1 == IF loc.extract_labels THEN io \cup {"extract_labels"} ELSE io
     IN IF mvp.variant = "within"
        THEN /\ mvp' = IF loc.extract_labels THEN update_metadata_within(m1) ELSE mvp
             /\ io' = io1
             /\ pc' = "statdir"
             /\ UNCHANGED err
        ELSE LET m2 == IF m1.output_var_file # "none" THEN add_outcome_var(m1) ELSE m1
                 io2 == IF m1.output_var_file # "none" THEN io1 \cup {"open"} ELSE io1
             IN IF m2.contrast_labels = None
                THEN mvp' = m2 /\ io' = io2 /\ Raise("TypeError")
                ELSE /\ mvp' = update_metadata_between(m2)
                     /\ io' = io2
                     /\ pc' = "statdir"
                     /\ UNCHANGED err
  /\ UNCHANGED <<fs, loc, pre>>

\* "Specify appropriate stats-directory"
StepStatDir ==
  /\ pc = "statdir"
  /\ IF mvp.ref_space \notin {"epi", "mni"}
     THEN Raise("ConfigurationError") /\ UNCHANGED <<loc, io>>
     ELSE /\ loc' = [loc EXCEPT
                       !.transform2mni = (mvp.ref_space = "mni" /\ ~fs.feat.std_exists),
                       !.stat_dir = IF mvp.ref_space = "mni" /\ fs.feat.std_exists
                                    THEN "reg_standard" ELSE "stats"]
          /\ io' = IF mvp.ref_space = "mni" THEN io \cup {"isdir"} ELSE io
          /\ pc' = "list"
          /\ UNCHANGED err
  /\ UNCHANGED <<mvp, fs, pre>>

\* copes, varcopes = glob(...), sorted: glob lists the files in one of the
\* orders Orders allows
GlobStep(anyOrder) ==
  /\ pc = "list"
  /\ \E gcopes \in ListingOrders(GlobStats(fs.feat, loc.stat_dir, "cope"), anyOrder),
        gvarcopes \in ListingOrders(GlobStats(fs.feat, loc.stat_dir, "varcope"), anyOrder) :
       loc' = [loc EXCEPT !.copes = sort_numbered_list(gcopes),
                          !.varcopes = sort_numbered_list(gvarcopes)]
  /\ io' = io \cup {"glob_stats"}
  /\ pc' = "exclude"
  /\ UNCHANGED <<mvp, fs, err, pre>>

StepGlob == GlobStep(FALSE)

\* transform and exclude the (var)copes
StepExclude ==
  /\ pc = "exclude"
  /\ LET r == IF mvp.variant = "within"
              THEN ListStatsWithin(loc.copes, loc.varcopes, mvp.remove_idx,
                                   loc.transform2mni)
              ELSE ListStatsBetween(loc.copes, loc.varcopes, mvp.remove_idx,
                                    loc.transform2mni)
     IN /\ fs' = IF r.written = {} THEN fs
                 ELSE [fs EXCEPT !.feat.std_exists = TRUE,
                                 !.feat.std = @ \cup r.written]
        /\ io' = IF r.written = {} THEN io ELSE io \cup {"convert2mni"}
        /\ loc' = [loc EXCEPT !.copes = r.copes, !.varcopes = r.varcopes]
        /\ IF r.err = "none"
           THEN pc' = (IF mvp.variant = "within" THEN "count" ELSE "peek")
                /\ UNCHANGED err
           ELSE Raise(r.err)
  /\ UNCHANGED <<mvp, pre>>

\* within-run: the number of trials must match the number of class labels
StepCount ==
  /\ pc = "count"
  /\ IF Len(loc.copes) # Len(mvp.contrast_labels)
     THEN Raise("CountMismatch")
     ELSE pc' = "peek" /\ UNCHANGED err
  /\ UNCHANGED <<mvp, fs, loc, io, pre>>

\* "We need to 'peek' at the first cope to know the dimensions"
StepPeek ==
  /\ pc = "peek"
  /\ IF mvp.mask_path # "none"
     THEN pc' = "load" /\ UNCHANGED <<mvp, err, io>>
     ELSE IF loc.copes = << >>
     THEN Raise("IndexError") /\ UNCHANGED <<mvp, io>>
     ELSE /\ mvp' = PeekGeometry(mvp, nib_load(fs.feat, loc.copes[1]))
          /\ io' = io \cup {"nib.load"}
          /\ pc' = "load"
          /\ UNCHANGED err
  /\ UNCHANGED <<fs, loc, pre>>

\* pre-allocate, load the copes, convert to t-values, replace nan
StepLoad ==
  /\ pc = "load"
  /\ LET r == IF mvp.variant = "within"
              THEN LoadDataWithin(mvp, fs.feat, loc.copes, loc.varcopes)
              ELSE LoadDataBetween(mvp, fs.feat, loc.copes, loc.varcopes)
         m1 == IF "nifti_header" \in DOMAIN r
               THEN [mvp EXCEPT !.nifti_header = r.nifti_header, !.affine = r.affine]
               ELSE mvp
         m2 == IF mvp.variant = "between"
               THEN [m1 EXCEPT !.contrast_id = r.contrast_id, !.voxel_idx = r.voxel_idx]
               ELSE m1
     IN /\ mvp' = m2
        /\ IF r.err = "none"
           THEN /\ loc' = [loc EXCEPT !.mvp_data = Some(r.mvp_data)]
                /\ pc' = "wheader"
                /\ UNCHANGED err
           ELSE Raise(r.err) /\ UNCHANGED loc
  /\ io' = io \cup {"nib.load"}
  /\ UNCHANGED <<fs, pre>>

\* cPickle.dump(self, handle) into <sub>_header_run<n_converted+1>.pickle
StepWriteHeader ==
  /\ pc = "wheader"
  /\ fs' = [fs EXCEPT !.mat.headers = WriteArtifact(@, loc.n_converted + 1, pre.calls)]
  /\ loc' = [loc EXCEPT !.header_dump = Some(mvp)]
  /\ io' = io \cup {"write_header"}
  /\ pc' = "wdata"
  /\ UNCHANGED <<mvp, err, pre>>

\* h5f.create_dataset('data', data=mvp_data) into <sub>_data_run<n_converted+1>.hdf5
StepWriteData ==
  /\ pc = "wdata"
  /\ fs' = [fs EXCEPT !.mat.datas = WriteArtifact(@, loc.n_converted + 1, pre.calls)]
  /\ io' = io \cup {"write_data"}
  /\ pc' = "setX"
  /\ UNCHANGED <<mvp, err, loc, pre>>

\* self.X = mvp_data; return self
StepAssignX ==
  /\ pc = "setX"
  /\ mvp' = [mvp EXCEPT !.X = loc.mvp_data]
  /\ pc' = "done"
  /\ UNCHANGED <<fs, err, loc, io, pre>>

Next ==
  \/ Construct
  \/ Discard
  \/ Call
  \/ StepMask
  \/ StepHousekeeping
  \/ StepLabels
  \/ StepStatDir
  \/ StepGlob
  \/ StepExclude
  \/ StepCount
  \/ StepPeek
  \/ StepLoad
  \/ StepWriteHeader
  \/ StepWriteData
  \/ StepAssignX

Spec == Init /\ [][Next]_vars

\* C4: a within-run call that fails with the count-mismatch error has not
\* allocated the data matrix, has created no header or data artifact and has
\* left every existing artifact of the output directory as it was.
C4_CountMismatchWritesNothing ==
  (pc = "failed" /\ err = "CountMismatch") =>
    /\ loc.mvp_data = None
    /\ fs.mat.headers = pre.fs.mat.headers
    /\ fs.mat.datas = pre.fs.mat.datas

\* the attributes an extraction derives, per variant
DerivedFields(variant) ==
  {"X", "y", "mask_index", "mask_shape", "n_features", "nifti_header", "affine",
   "contrast_labels", "remove_idx", "voxel_idx"}
  \cup (IF variant = "within"
        THEN {"n_class", "class_names", "n_trials", "n_inst", "class_idx", "trial_idx"}
        ELSE {"contrast_id", "n_contrast", "contrast_names"})

\* C5: after a failed extraction call the entity's derived arrays and
\* metadata are what they were when the call was entered.
C5_FailureCommitsNothing ==
  pc = "failed" =>
    \A f \in DerivedFields(mvp.variant) : mvp[f] = pre.mvp[f]

\* C6: a call that fails with the configuration error (a reference-space tag
\* other than 'epi' or 'mni') has done no I/O: no mask volume loaded or
\* transformed, no output directory listed, created or deleted, no labels read.
C6_ConfigErrorBeforeIO ==
  err = "ConfigurationError" =>
    /\ io = {}
    /\ fs = pre.fs
    /\ mvp.contrast_labels = pre.mvp.contrast_labels

\* C7: after a completed between-run call (on a directory whose labels are
\* one per retained condition), X, contrast_id and voxel_idx all have length
\* n_features x retained conditions; block i of contrast_id is all i and
\* block i of voxel_idx is the increasing list of the mask's true positions.
C7_BetweenBlocks ==
  (pc = "done" /\ mvp.variant = "between"
     /\ Len(mvp.contrast_labels) = Len(loc.copes)) =>
    LET F == mvp.n_features
        K == Len(loc.copes)
        pos == SortedSeq({p - 1 : p \in {q \in DOMAIN mvp.mask_index : mvp.mask_index[q]}})
    IN /\ Len(mvp.X[1]) = F * K
       /\ Len(mvp.contrast_id) = F * K
       /\ Len(mvp.voxel_idx) = F * K
       /\ \A i \in 0..(K - 1) : \A j \in 1..F :
            /\ mvp.contrast_id[i * F + j] = i
            /\ mvp.voxel_idx[i * F + j] = pos[j]

(***************************************************************************)
(* SpecT: the data steps of glm2mvp on one condition volume with any       *)
(* effect and variance values, from the state the call is in once the      *)
(* labels are read and the mask is built.                                  *)
(***************************************************************************)
EffVals == {0 - 4, 0, 4}
VarVals == {0 - 1, 0, 4}

FeatDirsT ==
  {[shape |-> MainShape,
    cope |-> <<e>>, varcope |-> <<v>>,
    std_exists |-> FALSE, std |-> {}, labels |-> <<1>>, remove_idx |-> << >>]
   : e \in [1..Prod(MainShape) -> EffVals], v \in [1..Prod(MainShape) -> VarVals]}

InitT ==
  /\ \E feat \in FeatDirsT, b2t \in BOOLEAN, mp \in {"none", "mask_epi"},
        variant \in {"within", "between"} :
       LET m0 == IF variant = "within"
                 THEN Fsl2mvpWithin__init__("epi", b2t, mp, 0)
                 ELSE Fsl2mvpBetween__init__("epi", b2t, mp, 0, "none")
           m1 == IF variant = "within"
                 THEN update_metadata_within(extract_labels(m0, feat))
                 ELSE update_metadata_between(extract_labels(m0, feat))
           m2 == IF mp = "none"
                 THEN PeekGeometry(m1, nib_load(feat, File("cope", 1, "stats")))
                 ELSE MaskFromVolume(m1, MainMaskVol(mp))
       IN /\ mvp = m2
          /\ fs = [feat |-> feat, mat |-> EmptyDir]
          /\ pre = [mvp |-> m0, fs |-> [feat |-> feat, mat |-> NoMat], calls |-> 1]
  /\ pc = "load"
  /\ err = "none"
  /\ loc = [NoLocals EXCEPT !.stat_dir = "stats",
                            !.copes = <<File("cope", 1, "stats")>>,
                            !.varcopes = <<File("varcope", 1, "stats")>>]
  /\ io = {"glob", "makedirs", "extract_labels", "glob_stats", "nib.load"}

NextT == StepLoad \/ StepWriteHeader \/ StepWriteData \/ StepAssignX

SpecT == InitT /\ [][NextT]_vars

\* the 1-based positions the mask selects, ascending
SelectedPos(m) == SortedSeq({p \in DOMAIN m.mask_index : m.mask_index[p]})

\* the stored value of feature j of condition i
StoredX(m, i, j) ==
  IF m.variant = "within" THEN m.X[1][i][j]
  ELSE m.X[1][(i - 1) * m.n_features + j]

\* C8: with beta-to-t conversion enabled, every stored value is
\* effect / sqrt(variance) when that quotient is finite and 0 otherwise; no
\* stored value is inf or nan (within-run and between-run).
C8_FiniteTStats ==
  (pc = "done" /\ mvp.beta2tstat) =>
    \A i \in DOMAIN loc.copes : \A j \in 1..mvp.n_features :
      LET e == fs.feat.cope[loc.copes[i].num][SelectedPos(mvp)[j]]
          v == fs.feat.varcope[loc.varcopes[i].num][SelectedPos(mvp)[j]]
          x == StoredX(mvp, i, j)
      IN /\ x.k = "fin"
         /\ (v > 0 /\ e # 0) => (x.v * x.v * v = e * e /\ Sign(x.v) = Sign(e))
         /\ (v <= 0 \/ e = 0) => x.v = 0

(***************************************************************************)
(* SpecExclude: the statistics-listing steps of glm2mvp for any glob order *)
(* and any exclusion list of distinct positions, in any order.             *)
(***************************************************************************)
\* the exclusion lists label discovery can produce: distinct positions
RemoveLists ==
  {q \in SeqsUpTo(0..(MaxCopes - 1), MaxCopes) :
     \A i, j \in DOMAIN q : i # j => q[i] # q[j]}

FeatDirsX ==
  {[shape |-> <<1, 1, 1>>,
    cope |-> [i \in 1..n |-> <<4>>], varcope |-> [i \in 1..n |-> <<4>>],
    std_exists |-> se,
    std |-> IF se THEN {File(k, i, "reg_standard") : k \in {"cope", "varcope"}, i \in 1..n}
            ELSE {},
    labels |-> <<1>>, remove_idx |-> rm]
   : n \in 1..MaxCopes, se \in BOOLEAN, rm \in RemoveLists}

InitExclude ==
  /\ \E feat \in FeatDirsX, rs \in {"epi", "mni"}, variant \in {"within", "between"} :
       LET m0 == IF variant = "within"
                 THEN Fsl2mvpWithin__init__(rs, TRUE, "none", 0)
                 ELSE Fsl2mvpBetween__init__(rs, TRUE, "none", 0, "none")
           m1 == IF variant = "within"
                 THEN update_metadata_within(extract_labels(m0, feat))
                 ELSE update_metadata_between(extract_labels(m0, feat))
       IN /\ mvp = m1
          /\ fs = [feat |-> feat, mat |-> EmptyDir]
          /\ pre = [mvp |-> m0, fs |-> [feat |-> feat, mat |-> NoMat], calls |-> 1]
  /\ pc = "statdir"
  /\ err = "none"
  /\ loc = NoLocals
  /\ io = {"glob", "makedirs", "extract_labels"}

\* the listing step with every order glob may return
StepGlobAnyOrder == GlobStep(TRUE)

NextExclude == StepStatDir \/ StepGlobAnyOrder \/ StepExclude

SpecExclude == InitExclude /\ [][NextExclude]_vars

\* C10: once the exclusion has been applied, the retained copes are the
\* numerically sorted copes at the non-excluded positions, in order, the
\* same positions are gone from the varcopes, and cope k is paired with
\* varcope k.
C10_PositionalExclusion ==
  pc \in {"count", "peek"} =>
    LET n == Len(fs.feat.cope)
        rm == Range(mvp.remove_idx[1])
        keep == SortedSeq({i \in 1..n : (i - 1) \notin rm})
    IN /\ Len(loc.copes) = Len(keep)
       /\ Len(loc.varcopes) = Len(keep)
       /\ \A k \in DOMAIN keep :
            /\ loc.copes[k].kind = "cope" /\ loc.copes[k].num = keep[k]
            /\ loc.varcopes[k].kind = "varcope" /\ loc.varcopes[k].num = keep[k]

\* positions [0, 2], given ascending, have been removed from three copes and
\* only the middle one is left
C10_Witness ==
  /\ pc \in {"count", "peek"}
  /\ Len(fs.feat.cope) = 3
  /\ mvp.remove_idx[1] = <<0, 2>>
  /\ Len(loc.copes) = 1
  /\ loc.copes[1].num = 2
  /\ loc.varcopes[1].num = 2

(***************************************************************************)
(* The header artifact: what cPickle.dump(self, handle) snapshots.         *)
(***************************************************************************)
\* C12: the entity pickled into the header artifact already holds, in X,
\* the data matrix this call produced (the array that goes into the data
\* artifact under 'data'), next to the mask, header/affine and labels.
C12_HeaderSnapshotHoldsX ==
  loc.header_dump # None =>
    LET snap == loc.header_dump[1]
    IN /\ snap.X = loc.mvp_data
       /\ snap.mask_index = mvp.mask_index
       /\ snap.nifti_header = mvp.nifti_header
       /\ snap.affine = mvp.affine
       /\ snap.contrast_labels = mvp.contrast_labels

(***************************************************************************)
(* SpecRuns: the runs of one subject are extracted one call after another  *)
(* into the subject's output directory.                                    *)
(***************************************************************************)
\* entities without a mask, in native space or with an invalid space
RunEntities ==
  {Fsl2mvpWithin__init__(rs, TRUE, "none", 0) : rs \in {"epi", "bad"}}
  \cup
  {Fsl2mvpBetween__init__(rs, TRUE, "none", 0, "none") : rs \in {"epi", "bad"}}

\* first-level directories without exclusions and without reg_standard
RunFeatDirs == {f \in FeatDirs : ~f.std_exists /\ f.remove_idx = << >>}

ConstructRun ==
  /\ pc = "none"
  /\ pre.calls < MaxCalls
  /\ mvp' \in RunEntities
  /\ \E feat \in RunFeatDirs : fs' = [fs EXCEPT !.feat = feat]
  /\ pc' = "idle"
  /\ pre' = [pre EXCEPT !.mvp = mvp', !.fs = fs']
  /\ UNCHANGED <<err, loc, io>>

NextRuns ==
  \/ ConstructRun
  \/ Discard
  \/ Call
  \/ StepMask
  \/ StepHousekeeping
  \/ StepLabels
  \/ StepStatDir
  \/ StepGlob
  \/ StepExclude
  \/ StepCount
  \/ StepPeek
  \/ StepLoad
  \/ StepWriteHeader
  \/ StepWriteData
  \/ StepAssignX

SpecRuns == Init /\ [][NextRuns]_vars

\* C13: at the start of a call the output directory is deleted and recreated
\* iff it exists and holds at least n_feat header artifacts, and numbering
\* restarts at run 1; otherwise the artifacts are kept and the call writes
\* run n_converted + 1, a run that is not there yet. When a call completes
\* the directory holds headers 1..k, 1 <= k <= n_feat, each with the data
\* artifact of the same run, the last pair written by this call.
C13_RunNumbering ==
  [][/\ (pc = "house" =>
           IF fs.mat.exists /\ CountHeaders(fs.mat) >= NFeat
           THEN fs'.mat = EmptyDir /\ loc'.n_converted = 0
           ELSE /\ fs'.mat.headers = fs.mat.headers
                /\ fs'.mat.datas = fs.mat.datas
                /\ loc'.n_converted = CountHeaders(fs.mat))
     /\ (pc = "wheader" =>
           LET run == loc.n_converted + 1
           IN /\ run \notin DOMAIN fs.mat.headers
              /\ DOMAIN fs'.mat.headers = DOMAIN fs.mat.headers \cup {run}
              /\ \A r \in DOMAIN fs.mat.headers : fs'.mat.headers[r] = fs.mat.headers[r]
              /\ fs'.mat.datas = fs.mat.datas)
     /\ (pc = "wdata" =>
           LET run == loc.n_converted + 1
           IN /\ run \notin DOMAIN fs.mat.datas
              /\ DOMAIN fs'.mat.datas = DOMAIN fs.mat.datas \cup {run}
              /\ \A r \in DOMAIN fs.mat.datas : fs'.mat.datas[r] = fs.mat.datas[r]
              /\ fs'.mat.headers = fs.mat.headers)
     /\ (pc' = "done" =>
           LET k == CountHeaders(fs'.mat)
           IN /\ 1 <= k /\ k <= NFeat
              /\ DOMAIN fs'.mat.headers = 1..k
              /\ DOMAIN fs'.mat.datas = 1..k
              /\ k = loc'.n_converted + 1
              /\ fs'.mat.headers[k] = pre'.calls
              /\ fs'.mat.datas[k] = pre'.calls)]_vars

\* starting without an output directory, NFeat calls filled runs 1..NFeat and
\* the next call has reset the directory and written run 1 again
C13_Witness ==
  /\ pc = "done"
  /\ pre.calls = NFeat + 1
  /\ loc.n_converted = 0
  /\ DOMAIN fs.mat.headers = {1}
  /\ fs.mat.headers[1] = NFeat + 1
  /\ fs.mat.datas = fs.mat.headers

(***************************************************************************)
(* SpecPar: NWorkers independent processes each call glm2mvp once, on an   *)
(* entity of their own for a first-level directory of the same subject;    *)
(* the processes share the subject's output directory only. pc and loc are *)
(* per worker. One action is one worker's step; the directory test and     *)
(* reset are taken as one step, the narrowest window the code can have.    *)
(***************************************************************************)
Workers == 1..NWorkers

InitPar ==
  /\ mvp = NoEntity
  /\ \E mat \in {NoMat} \cup {OldMat(k) : k \in 0..NFeat} :
       fs = [feat |-> NoFeat, mat |-> mat]
  /\ pc = [w \in Workers |-> "house"]
  /\ err = "none"
  /\ loc = [w \in Workers |-> [n_converted |-> 0]]
  /\ io = {}
  /\ pre = [mvp |-> NoEntity, fs |-> fs, calls |-> 0]

\* a worker counts the converted runs and resets or creates the directory
ParHousekeeping ==
  \E w \in Workers :
    /\ pc[w] = "house"
    /\ LET h == Housekeeping(fs.mat, NFeat)
       IN /\ fs' = [fs EXCEPT !.mat = h.mat]
          /\ loc' = [loc EXCEPT ![w].n_converted = h.n_converted]
    /\ pc' = [pc EXCEPT ![w] = "extract"]
    /\ UNCHANGED <<mvp, err, io, pre>>

\* a worker extracts labels and data from its own first-level directory
ParExtract ==
  \E w \in Workers :
    /\ pc[w] = "extract"
    /\ pc' = [pc EXCEPT ![w] = "wheader"]
    /\ UNCHANGED <<mvp, fs, err, loc, io, pre>>

\* a worker pickles its entity into <sub>_header_run<n_converted+1>.pickle
ParWriteHeader ==
  \E w \in Workers :
    /\ pc[w] = "wheader"
    /\ fs' = [fs EXCEPT !.mat.headers = WriteArtifact(@, loc[w].n_converted + 1, w)]
    /\ pc' = [pc EXCEPT ![w] = "wdata"]
    /\ UNCHANGED <<mvp, err, loc, io, pre>>

\* a worker writes its matrix into <sub>_data_run<n_converted+1>.hdf5
ParWriteData ==
  \E w \in Workers :
    /\ pc[w] = "wdata"
    /\ fs' = [fs EXCEPT !.mat.datas = WriteArtifact(@, loc[w].n_converted + 1, w)]
    /\ pc' = [pc EXCEPT ![w] = "done"]
    /\ UNCHANGED <<mvp, err, loc, io, pre>>

NextPar == ParHousekeeping \/ ParExtract \/ ParWriteHeader \/ ParWriteData

SpecPar == InitPar /\ [][NextPar]_vars

\* C11: when the output directory has room for every worker's run (so that
\* calls made one after the other would keep all of them), then in any
\* interleaving the workers write to different run numbers, and when all
\* have finished each worker's header and data artifact is in the directory.
C11_ParallelRunsKeepArtifacts ==
  (CountHeaders(pre.fs.mat) + NWorkers <= NFeat) =>
    /\ \A v, w \in Workers :
         (v # w /\ pc[v] \in {"wheader", "wdata", "done"}
                /\ pc[w] \in {"wheader", "wdata", "done"})
           => loc[v].n_converted # loc[w].n_converted
    /\ (\A w \in Workers : pc[w] = "done") =>
         \A w \in Workers :
           \E r \in DOMAIN fs.mat.headers \cap DOMAIN fs.mat.datas :
             fs.mat.headers[r] = w /\ fs.mat.datas[r] = w

====
